---- MODULE Spec2Model ----
(***************************************************************************)
(* A model of dbfpy (steelywing/dbfpy): the DBF header (header.py), the    *)
(* field definitions (fields.py), the record (record.py) and the table     *)
(* accessor (dbf.py).                                                      *)
(*                                                                         *)
(* Python's None is the empty sequence <<>>, an integer i that may be None *)
(* is the one-element sequence <<i>>.  A call that raises is recorded by   *)
(* the name of what it raised in the field err; err = "" is a normal       *)
(* return.  Field names are sequences of one-character strings.            *)
(***************************************************************************)
EXTENDS Integers, Sequences, FiniteSets, TLC

VARIABLES
    made,     \* how the header came to be: "none", "ctor", "ctor_fields", "parse",
              \* "dbf"; "closed" once the table was closed
    header,   \* the DbfHeader object (its slots)
    stream,   \* Dbf.stream: whether it is writable, the last write made on it, and
              \* the record count in the header bytes it holds (None: no header)
    memo,     \* Dbf.memo: None (<<>>) or <<[is_fpt |-> ...]>>
    recs,     \* the DbfRecord objects the caller holds
    last      \* the last call: its name, its arguments and what it returned or raised

vars == <<made, header, stream, memo, recs, last>>

\* ---------------------------------------------------------------- bounds

MaxFields == 2
MaxCount == 2

\* ------------------------------------------------------------- constants

SIG_DEFAULT == 3
SIG_FOXPRO == 48
SIG_DBASE3_MEMO == 131
HEADER_SIZE == 32
DESCRIPTOR_SIZE == 32
BACKLINK_SIZE == 263
MAX_NAME_LENGTH == 10
FLAG_LENGTH == 1
TERMINATOR == 13
NAME_SIZE == 11
RESERVED_SIZE == 8
MEMO_FLAG == 2
BYTE == 256
VALUE_DECIMALS == 2

None == <<>>
Some(i) == <<i>>
Val(o) == o[1]

\* ---------------------------------------------------------------- fields

RegisteredTypes == {"C", "N", "F", "I", "Y", "L", "G", "M", "P", "D", "T"}

fixed_length(type_code) ==
    CASE type_code = "I" -> Some(4)
      [] type_code = "Y" -> Some(8)
      [] type_code = "L" -> Some(1)
      [] type_code \in {"G", "M", "P"} -> Some(4)
      [] type_code \in {"D", "T"} -> Some(8)
      [] OTHER -> None

is_memo(type_code) == type_code \in {"G", "M", "P"}

default_value(type_code) ==
    CASE type_code = "C" -> "''"
      [] type_code \in {"N", "F", "Y"} -> "0.0"
      [] type_code = "I" -> "0"
      [] type_code = "L" -> "-1"
      [] type_code \in {"G", "M", "P"} -> "\\x00\\x00\\x00\\x00"
      [] type_code = "D" -> "today"
      [] OTHER -> "now"

upper_char(c) ==
    CASE c = "a" -> "A"
      [] c = "b" -> "B"
      [] c = "c" -> "C"
      [] c = "e" -> "E"
      [] c = "g" -> "G"
      [] c = "i" -> "I"
      [] c = "l" -> "L"
      [] c = "m" -> "M"
      [] c = "n" -> "N"
      [] c = "o" -> "O"
      [] c = "t" -> "T"
      [] OTHER -> c

upper(name) == [i \in 1..Len(name) |-> upper_char(name[i])]

\* the name setter without its check of the length
name_setter_unchecked(old, name) == [err |-> "", name |-> upper(name)]

\* The setter of DbfField.name: old is the name stored before (None in the
\* constructor); a name of more than 10 bytes raises and stores nothing
name_setter(old, name) ==
    IF Len(name) > MAX_NAME_LENGTH THEN [err |-> "ValueError:name", name |-> old]
    ELSE [err |-> "", name |-> upper(name)]

\* DbfField.__init__: the length of a fixed-length type is its fixed length,
\* whatever was asked for; a variable length must be given and positive; the
\* name is at most 10 bytes and is stored in upper case.
DbfField_init(type_code, name, length, start, ignore_errors) ==
    LET fixed == fixed_length(type_code)
        len == IF fixed = None THEN length ELSE fixed
    IN  IF fixed = None /\ length = None THEN [err |-> "ValueError:length", field |-> None]
        ELSE IF fixed = None /\ Val(length) <= 0 THEN [err |-> "ValueError:length", field |-> None]
        ELSE IF name_setter(None, name).err # ""
        THEN [err |-> name_setter(None, name).err, field |-> None]
        ELSE [err |-> "",
              field |-> [type_code |-> type_code, name |-> name_setter(None, name).name,
                         start |-> start,
                         length |-> Val(len), ignore_errors |-> ignore_errors,
                         file |-> None]]

\* DbfFields.get
DbfFields_get(type_code) == IF type_code \in RegisteredTypes THEN "" ELSE "KeyError"

\* DbfFields.parse(string, ignore_errors) of a 32-byte descriptor
DbfFields_parse(desc, ignore_errors) ==
    IF DbfFields_get(desc.type_code) # "" THEN [err |-> "KeyError", field |-> None]
    ELSE DbfField_init(desc.type_code, desc.name, Some(desc.length), Some(desc.start),
                       ignore_errors)

\* the byte 0x00 in the name bytes of a descriptor
Nul == "NUL"

\* utils.unzfill: the bytes before the first 0x00
RECURSIVE unzfill(_)
unzfill(bytes) ==
    IF bytes = <<>> \/ bytes[1] = Nul THEN <<>>
    ELSE <<bytes[1]>> \o unzfill(Tail(bytes))

\* struct.pack of '11s': the name padded with 0x00 to 11 bytes
pack_name(name) == [i \in 1..NAME_SIZE |-> IF i <= Len(name) THEN name[i] ELSE Nul]

\* decimal_count as a field reads it back: a currency field always says 4
\* and drops what is assigned
decimal_count_of(type_code, value) == IF type_code = "Y" THEN 4 ELSE value

\* DbfFields.parse of the 32 raw bytes b, with every attribute it unpacks:
\* the bytes 24..31 are not unpacked
descriptor_parse(b) ==
    LET p == DbfFields_parse([type_code |-> b.type_code, name |-> unzfill(b.name),
                              start |-> b.start, length |-> b.length], FALSE)
    IN  IF p.err # "" THEN [err |-> p.err, field |-> None]
        ELSE [err |-> "",
              field |-> [core |-> p.field,
                         decimal_count |-> decimal_count_of(b.type_code, b.decimal_count),
                         flag |-> b.flag, ai_next |-> b.ai_next, ai_step |-> b.ai_step]]

\* DbfField.to_bytes: the 32 bytes of a field, the last 8 of them zero
DbfField_to_bytes(f) ==
    [name |-> pack_name(f.core.name), type_code |-> f.core.type_code,
     start |-> Val(f.core.start), length |-> f.core.length,
     decimal_count |-> f.decimal_count, flag |-> f.flag, ai_next |-> f.ai_next,
     ai_step |-> f.ai_step, reserved |-> [i \in 1..RESERVED_SIZE |-> 0]]

\* decode of a logical field that does not take the space for False
Logical_decode_no_space(value) ==
    IF value = "?" THEN [err |-> "", value |-> "-1"]
    ELSE IF value \in {"N", "n", "F", "f"} THEN [err |-> "", value |-> "False"]
    ELSE IF value \in {"Y", "y", "T", "t"} THEN [err |-> "", value |-> "True"]
    ELSE [err |-> "ValueError:logical", value |-> ""]

\* DbfLogicalField.decode(value) of a one-byte value
Logical_decode(value) ==
    IF value = "?" THEN [err |-> "", value |-> "-1"]
    ELSE IF value \in {"N", "n", "F", "f", " "} THEN [err |-> "", value |-> "False"]
    ELSE IF value \in {"Y", "y", "T", "t"} THEN [err |-> "", value |-> "True"]
    ELSE [err |-> "ValueError:logical", value |-> ""]

\* DbfLogicalField.encode(value): value is written as Python writes it
Logical_encode(value) ==
    IF value = "True" THEN "T"
    ELSE IF value \in {"-1", "-1.0"} THEN "?"
    ELSE "F"

\* ten to the power n
RECURSIVE pow10(_)
pow10(n) == IF n = 0 THEN 1 ELSE 10 * pow10(n - 1)

DigitChars == <<"0", "1", "2", "3", "4", "5", "6", "7", "8", "9">>

\* the decimal digits of a natural number
RECURSIVE digits(_)
digits(n) ==
    IF n < 10 THEN <<DigitChars[n + 1]>>
    ELSE digits(n \div 10) \o <<DigitChars[(n % 10) + 1]>>

\* the digits of n, with zeros in front, to the width given
zero_filled(n, width) ==
    LET d == digits(n)
    IN  [i \in 1..(width - Len(d)) |-> "0"] \o d

\* "%*.*f" % (length, decimal_count, value): value is a number of
\* hundredths; it is rounded to decimal_count decimals, written with its
\* sign, its integer digits, and a point and the decimals when there are
\* any, and filled with spaces in front to length characters
format_f(length, decimal_count, value) ==
    LET unit == pow10(VALUE_DECIMALS - decimal_count)
        mag == IF value < 0 THEN -value ELSE value
        q == (mag + unit \div 2) \div unit
        text == (IF value < 0 THEN <<"-">> ELSE <<>>)
                  \o digits(q \div pow10(decimal_count))
                  \o (IF decimal_count > 0
                      THEN <<".">> \o zero_filled(q % pow10(decimal_count), decimal_count)
                      ELSE <<>>)
    IN  [i \in 1..(length - Len(text)) |-> " "] \o text

\* string.find("."): the index, from 0, of the first point, or -1
find_dot(string) ==
    IF \E i \in 1..Len(string) : string[i] = "."
    THEN (CHOOSE i \in 1..Len(string) :
            string[i] = "." /\ \A j \in 1..(i - 1) : string[j] # ".") - 1
    ELSE -1

\* the test of encode that lets a string that is too long be cut, with the
\* point required before the last character kept
point_within_strict(string, length) ==
    0 <= find_dot(string) /\ find_dot(string) < length

\* 0 <= string.find(".") <= self.length
point_within(string, length) ==
    0 <= find_dot(string) /\ find_dot(string) <= length

\* DbfNumericField.encode(value) of a field of the length and decimal_count
Numeric_encode(length, decimal_count, value) ==
    LET string == format_f(length, decimal_count, value)
    IN  IF Len(string) > length
        THEN IF ~point_within(string, length)
             THEN [err |-> "ValueError:overflow", bytes |-> <<>>]
             ELSE [err |-> "", bytes |-> SubSeq(string, 1, length)]
        ELSE [err |-> "", bytes |-> string]

\* memoType of the memo-bearing field classes
memoType(type_code) ==
    CASE type_code = "G" -> "TYPE_OBJECT"
      [] type_code = "M" -> "TYPE_MEMO"
      [] type_code = "P" -> "TYPE_PICTURE"

\* struct.unpack("<L", value)[0] of 4 bytes
unpack_L(value) ==
    value[1] + BYTE * value[2] + BYTE * BYTE * value[3] + BYTE * BYTE * BYTE * value[4]

\* struct.pack("<L", n)
pack_L(n) ==
    <<n % BYTE, (n \div BYTE) % BYTE, (n \div (BYTE * BYTE)) % BYTE,
      (n \div (BYTE * BYTE * BYTE)) % BYTE>>

\* self.file.read(block): file is None or a memo store, which answers what
\* it holds
file_read(file, block) ==
    IF file = None THEN [err |-> "AttributeError", reads |-> <<>>, data |-> <<>>]
    ELSE [err |-> "", reads |-> <<block>>, data |-> Val(file).holds]

\* self.file.write(data): the store answers the block id it wrote to
file_write(file, data) ==
    IF file = None THEN [err |-> "AttributeError", writes |-> <<>>, block |-> 0]
    ELSE [err |-> "", writes |-> <<data>>, block |-> Val(file).next_block]

\* DbfGeneralField.decode with the store read on every value, the zero block
\* id included
General_decode_always_reads(type_code, value, file) ==
    LET r == file_read(file, unpack_L(value))
    IN  [err |-> r.err, reads |-> r.reads, value |-> r.data]

\* DbfGeneralField.decode(value): the calls of read it made and its value
General_decode(type_code, value, file) ==
    LET block == unpack_L(value)
    IN  IF block # 0
        THEN LET r == file_read(file, block)
             IN  [err |-> r.err, reads |-> r.reads, value |-> r.data]
        ELSE [err |-> "", reads |-> <<>>,
              value |-> [payload |-> <<>>, type |-> memoType(type_code)]]

\* DbfGeneralField.encode(value): the calls of write it made and its bytes
General_encode(type_code, value, file) ==
    IF value # <<>>
    THEN LET w == file_write(file, [payload |-> value, type |-> memoType(type_code)])
         IN  [err |-> w.err, writes |-> w.writes,
              bytes |-> IF w.err = "" THEN pack_L(w.block) ELSE <<>>]
    ELSE [err |-> "", writes |-> <<>>, bytes |-> <<0, 0, 0, 0>>]

\* decode of a field of type_code "G", "M" or "P": DbfMemoField.decode
\* decodes the payload of what DbfGeneralField.decode returns to text
memo_decode(type_code, value, file) ==
    LET d == General_decode(type_code, value, file)
    IN  IF type_code = "M" /\ d.err = ""
        THEN [d EXCEPT !.value = [text |-> d.value.payload]]
        ELSE d

\* encode of a field of type_code "G", "M" or "P": DbfMemoField.encode
\* encodes the text to bytes and hands them to DbfGeneralField.encode
memo_encode(type_code, value, file) == General_encode(type_code, value, file)

\* ------------------------------------------------------------- code page

\* the dictionary code_pages, in the order it is written: code and charset
code_pages ==
    <<<<1, "cp437">>, <<2, "cp850">>, <<3, "cp1252">>, <<8, "cp865">>,
      <<9, "cp437">>, <<10, "cp850">>, <<11, "cp437">>, <<13, "cp437">>,
      <<14, "cp850">>, <<15, "cp437">>, <<16, "cp850">>, <<17, "cp437">>,
      <<18, "cp850">>, <<19, "cp932">>, <<20, "cp850">>, <<21, "cp437">>,
      <<22, "cp850">>, <<23, "cp865">>, <<24, "cp437">>, <<25, "cp437">>,
      <<26, "cp850">>, <<27, "cp437">>, <<28, "cp863">>, <<29, "cp850">>,
      <<31, "cp852">>, <<34, "cp852">>, <<35, "cp852">>, <<36, "cp860">>,
      <<37, "cp850">>, <<38, "cp866">>, <<55, "cp850">>, <<64, "cp852">>,
      <<77, "cp936">>, <<78, "cp949">>, <<79, "cp950">>, <<80, "cp874">>,
      <<87, "cp1252">>, <<88, "cp1252">>, <<89, "cp1252">>, <<100, "cp852">>,
      <<101, "cp866">>, <<102, "cp865">>, <<103, "cp861">>, <<106, "cp737">>,
      <<107, "cp857">>, <<108, "cp863">>, <<120, "cp950">>, <<121, "cp949">>,
      <<122, "cp936">>, <<123, "cp932">>, <<124, "cp874">>, <<134, "cp737">>,
      <<135, "cp852">>, <<136, "cp857">>, <<200, "cp1250">>, <<201, "cp1251">>,
      <<202, "cp1254">>, <<203, "cp1253">>, <<204, "cp1257">>>>

\* the position in code_pages of the code, or 0
code_position(code_page) ==
    IF \E i \in 1..Len(code_pages) : code_pages[i][1] = code_page
    THEN CHOOSE i \in 1..Len(code_pages) : code_pages[i][1] = code_page
    ELSE 0

\* the encoding getter of CodePage: default is what
\* locale.getpreferredencoding() answers
CodePage_encoding(code_page, default) ==
    IF code_position(code_page) # 0 THEN code_pages[code_position(code_page)][2]
    ELSE default

\* the encoding setter without the else branch of its loop
CodePage_set_encoding_no_else(code_page, target_encoding) ==
    IF \E i \in 1..Len(code_pages) : code_pages[i][2] = target_encoding
    THEN code_pages[CHOOSE i \in 1..Len(code_pages) :
                       /\ code_pages[i][2] = target_encoding
                       /\ \A j \in 1..(i - 1) : code_pages[j][2] # target_encoding][1]
    ELSE code_page

\* the encoding setter of CodePage: the code page after it, which is the
\* first code of the dictionary with the encoding, or 0
CodePage_set_encoding(code_page, target_encoding) ==
    IF \E i \in 1..Len(code_pages) : code_pages[i][2] = target_encoding
    THEN code_pages[CHOOSE i \in 1..Len(code_pages) :
                       /\ code_pages[i][2] = target_encoding
                       /\ \A j \in 1..(i - 1) : code_pages[j][2] # target_encoding][1]
    ELSE 0

\* ---------------------------------------------------------------- header

RECURSIVE SumLength(_)
SumLength(flds) ==
    IF flds = <<>> THEN 0 ELSE flds[1].length + SumLength(Tail(flds))

calc_record_length(flds) == FLAG_LENGTH + SumLength(flds)

calc_header_length(flds, sig) ==
    HEADER_SIZE + DESCRIPTOR_SIZE * Len(flds) + 1
        + (IF sig = SIG_FOXPRO THEN BACKLINK_SIZE ELSE 0)

has_memo(flds) == \E i \in 1..Len(flds) : is_memo(flds[i].type_code)

NoHeader ==
    [fields |-> <<>>, record_length |-> 0, header_length |-> 0, record_count |-> 0,
     signature |-> 0, flag |-> 0, ignore_errors |-> FALSE, changed |-> FALSE]

IsField(d) == d.kind = "object"

\* the ignore_errors setter: every element of the field list gets the value
set_ignore_errors(flds, value) ==
    [i \in 1..Len(flds) |-> [flds[i] EXCEPT !.ignore_errors = value]]

\* The check at the end of DbfHeader.__init__
init_length_check(ignore_errors, flds, record_length) ==
    ~ignore_errors /\ calc_record_length(flds) # record_length

\* DbfHeader.__init__(fields, header_length, record_length, record_count,
\* signature, flag, ignore_errors): args are the elements of the list given.
DbfHeader_init(args, header_length, record_length, record_count, sig, flag, ignore_errors) ==
    IF \E i \in 1..Len(args) : ~IsField(args[i])
    THEN [err |-> "AttributeError", h |-> NoHeader]
    ELSE LET flds == set_ignore_errors([i \in 1..Len(args) |-> args[i].field], ignore_errors)
         IN  IF init_length_check(ignore_errors, flds, record_length)
             THEN [err |-> "ValueError:record_length", h |-> NoHeader]
             ELSE [err |-> "",
                   h |-> [fields |-> flds, record_length |-> record_length,
                          header_length |-> header_length, record_count |-> record_count,
                          signature |-> sig, flag |-> flag,
                          ignore_errors |-> ignore_errors, changed |-> FALSE]]

\* parse with the check of the start dropped
start_mismatch_dropped(pos, field) == FALSE

\* The check of a parsed descriptor's start against the running offset
start_mismatch(pos, field) == Some(pos) # field.start

\* stream.read(32) in the loop of parse: the next descriptor while there is
\* one; after the last, data that begins with the terminator 0x0D when the
\* stream holds it, and no data when the stream ends there
read_descriptor(descs, terminated) ==
    IF descs # <<>> THEN [len |-> DESCRIPTOR_SIZE, first |-> 65]
    ELSE IF terminated THEN [len |-> 1, first |-> TERMINATOR]
    ELSE [len |-> 0, first |-> 0]

\* The test that ends the loop of parse
loop_ends(data) == data.len < DESCRIPTOR_SIZE \/ data.first = TERMINATOR

\* The loop of DbfHeader.parse over the descriptors of the stream
RECURSIVE parse_fields(_, _, _, _)
parse_fields(descs, terminated, pos, flds) ==
    IF loop_ends(read_descriptor(descs, terminated)) THEN [err |-> "", fields |-> flds]
    ELSE LET p == DbfFields_parse(descs[1], pos # 0)
         IN  IF p.err # "" THEN [err |-> p.err, fields |-> flds]
             ELSE IF start_mismatch(pos, p.field)
                  THEN [err |-> "ValueError:start", fields |-> flds]
                  ELSE parse_fields(Tail(descs), terminated,
                                    Val(p.field.start) + p.field.length,
                                    Append(flds, p.field))

\* DbfHeader.parse(stream)
parse(in) ==
    IF in.short THEN [err |-> "ValueError:header", h |-> NoHeader]
    ELSE LET f == parse_fields(in.descs, in.terminated, 1, <<>>)
         IN  IF f.err # "" THEN [err |-> f.err, h |-> NoHeader]
             ELSE IF ~in.date_ok THEN [err |-> "ValueError:date", h |-> NoHeader]
             ELSE DbfHeader_init([i \in 1..Len(f.fields) |->
                                     [kind |-> "object", field |-> f.fields[i]]],
                                 in.header_length, in.record_length, in.record_count,
                                 in.signature, in.flag, FALSE)

\* add_field with its guard off by one
schema_frozen_off_by_one(record_count) == record_count > 1

\* The guard of add_field: the schema is frozen once a record was added
schema_frozen(record_count) == record_count > 0

\* One argument of add_field made into a field: a DbfField is taken as it is,
\* anything iterable is (type_code, name, length, decimal_count).
field_of(d, record_length, ignore_errors) ==
    IF IsField(d) THEN [err |-> "", field |-> d.field]
    ELSE IF d.kind # "tuple" THEN [err |-> "TypeError", field |-> None]
    ELSE IF DbfFields_get(d.type_code) # "" THEN [err |-> "KeyError", field |-> None]
    ELSE DbfField_init(d.type_code, d.name, d.length, Some(record_length), ignore_errors)

\* An argument add_field can make a field of: a DbfField, or a tuple of a
\* registered type that the type's constructor accepts
accepted_def(d) ==
    \/ IsField(d)
    \/ /\ d.kind = "tuple"
       /\ DbfFields_get(d.type_code) = ""
       /\ DbfField_init(d.type_code, d.name, d.length, None, FALSE).err = ""

\* The loop of add_field: what it raised, the field list and the record length
RECURSIVE add_loop(_, _, _, _)
add_loop(defs, flds, record_length, ignore_errors) ==
    IF defs = <<>> THEN [err |-> "", fields |-> flds, record_length |-> record_length]
    ELSE LET f == field_of(defs[1], record_length, ignore_errors)
         IN  IF f.err # ""
             THEN [err |-> f.err, fields |-> flds, record_length |-> record_length]
             ELSE add_loop(Tail(defs), Append(flds, f.field),
                           record_length + f.field.length, ignore_errors)

\* DbfHeader.add_field(*fields)
add_field(h, defs) ==
    IF schema_frozen(h.record_count) THEN [err |-> "TypeError:frozen", h |-> h]
    ELSE LET r == add_loop(defs, h.fields, h.record_length, h.ignore_errors)
             h1 == [h EXCEPT !.fields = r.fields, !.record_length = r.record_length]
         IN  IF r.err # "" THEN [err |-> r.err, h |-> h1]
             ELSE [err |-> "",
                   h |-> [h1 EXCEPT !.header_length = calc_header_length(r.fields, h.signature),
                                    !.changed = TRUE]]

\* set_memo_file knowing the FoxPro signature only
MemoSignatures_foxpro_only == {48}

MemoSignatures == {48, 131, 139, 203, 229, 245}

\* DbfHeader.set_memo_file(memo): memo is None or <<[is_fpt |-> ...]>>
set_memo_file(h, m) ==
    LET flds == [i \in 1..Len(h.fields) |->
                    IF is_memo(h.fields[i].type_code)
                    THEN [h.fields[i] EXCEPT !.file = m] ELSE h.fields[i]]
        h1 == [h EXCEPT !.fields = flds]
    IN  IF has_memo(h.fields) /\ h.signature \notin MemoSignatures
        THEN IF m = None THEN [err |-> "AttributeError", h |-> h1]
             ELSE LET sig == IF Val(m).is_fpt THEN SIG_FOXPRO ELSE SIG_DBASE3_MEMO
                  IN  [err |-> "",
                       h |-> [h1 EXCEPT !.signature = sig,
                                        !.header_length = calc_header_length(flds, sig)]]
        ELSE [err |-> "",
              h |-> [h1 EXCEPT !.header_length = calc_header_length(flds, h.signature)]]

\* to_bytes setting the memo bit whatever the field list is
memo_flag_always_set(flag, with_memo) ==
    flag + (1 - ((flag \div MEMO_FLAG) % 2)) * MEMO_FLAG

\* self.flag |= 0x02 when memo, self.flag &= ~0x02 when not
memo_flag(flag, with_memo) ==
    LET bit == (flag \div MEMO_FLAG) % 2
    IN  IF with_memo THEN flag + (1 - bit) * MEMO_FLAG ELSE flag - bit * MEMO_FLAG

\* the sizes of "< 4B I 2H 16s 2B 2s", the format DbfHeader.to_bytes packs
HeaderFormat == <<1, 1, 1, 1, 4, 2, 2, 16, 1, 1, 2>>

RECURSIVE struct_size(_)
struct_size(format) ==
    IF format = <<>> THEN 0 ELSE format[1] + struct_size(Tail(format))

\* DbfHeader.to_bytes: the header after it and the bytes returned
DbfHeader_to_bytes(h) ==
    LET h1 == [h EXCEPT !.flag = memo_flag(h.flag, has_memo(h.fields))]
    IN  [h |-> h1,
         bytes |-> [len |-> struct_size(HeaderFormat), signature |-> h1.signature,
                    record_count |-> h1.record_count, header_length |-> h1.header_length,
                    record_length |-> h1.record_length, flag |-> h1.flag]]

\* _fld.to_bytes() of a field of the header: struct.pack of a start that is
\* None raises
field_to_bytes(f) ==
    IF f.start = None THEN [err |-> "struct.error", bytes |-> <<>>]
    ELSE [err |-> "",
          bytes |-> DbfField_to_bytes([core |-> f,
                                       decimal_count |-> decimal_count_of(f.type_code, 0),
                                       flag |-> 0, ai_next |-> 0, ai_step |-> 0])]

\* DbfHeader.write(stream): the header after it and what was written from
\* offset 0, write by write
DbfHeader_write(h, writable) ==
    IF ~writable THEN [err |-> "", h |-> h, written |-> <<>>]
    ELSE LET t == DbfHeader_to_bytes(h)
             n == Len(h.fields)
             first == <<[kind |-> "header", len |-> t.bytes.len, bytes |-> t.bytes]>>
             flds == [i \in 1..n |-> field_to_bytes(h.fields[i])]
             pos == t.bytes.len + DESCRIPTOR_SIZE * n + 1
         IN  IF \E i \in 1..n : flds[i].err # ""
             THEN [err |-> "struct.error", h |-> t.h, written |-> first]
             ELSE [err |-> "",
                   h |-> [t.h EXCEPT !.changed = FALSE],
                   written |->
                       first
                       \o <<[kind |-> "fields", len |-> DESCRIPTOR_SIZE * n,
                             bytes |-> [i \in 1..n |-> flds[i].bytes]]>>
                       \o <<[kind |-> "terminator", len |-> 1, bytes |-> TERMINATOR]>>
                       \o (IF pos < h.header_length
                           THEN <<[kind |-> "zeros", len |-> h.header_length - pos,
                                   bytes |-> 0]>>
                           ELSE <<>>)]

\* the position, from 0, of the first field of the list with the name, or None
first_named(flds, name) ==
    IF \E i \in 1..Len(flds) : flds[i].name = name
    THEN Some((CHOOSE i \in 1..Len(flds) :
                 flds[i].name = name /\ \A j \in 1..(i - 1) : flds[j].name # name) - 1)
    ELSE None

\* a list of n elements indexed with an int, as Python does it: a negative
\* key counts from the end
list_getitem(n, key) ==
    IF key >= n \/ key < -n THEN [err |-> "IndexError", index |-> 0]
    ELSE [err |-> "", index |-> IF key < 0 THEN key + n ELSE key]

\* DbfHeader.index_of_field_name(name), name given as bytes: the name is
\* compared as it is given
index_of_field_name(h, name) ==
    LET found == first_named(h.fields, name)
    IN  IF found = None THEN [err |-> "KeyError", index |-> 0]
        ELSE [err |-> "", index |-> Val(found)]

\* DbfHeader.__getitem__(key): key is bytes or an int; the position, from 0,
\* of the field returned
DbfHeader_getitem(h, key) ==
    IF key.kind = "bytes"
    THEN LET found == first_named(h.fields, upper(key.name))
         IN  IF found = None THEN [err |-> "KeyError", index |-> 0]
             ELSE [err |-> "", index |-> Val(found)]
    ELSE IF key.kind = "int" THEN list_getitem(Len(h.fields), key.index)
    ELSE [err |-> "TypeError", index |-> 0]

\* ---------------------------------------------------------------- record

RecIds == {"r1"}

\* DbfRecord.__init__(dbf, index, deleted, data): owner is what was passed as
\* dbf; a DbfHeader has no attribute header, so taking the default values of
\* its fields raises.
DbfRecord_init(owner, flds, index, deleted, data) ==
    IF data = None
    THEN IF owner # "Dbf" THEN [err |-> "AttributeError", rec |-> None]
         ELSE [err |-> "",
               rec |-> Some([index |-> index, deleted |-> deleted,
                             field_data |-> [i \in 1..Len(flds) |->
                                                default_value(flds[i].type_code)]])]
    ELSE [err |-> "",
          rec |-> Some([index |-> index, deleted |-> deleted, field_data |-> Val(data)])]

\* DbfRecord.position
position(h, index) == h.header_length + index * h.record_length

\* DbfRecord.validate_index(allow_undefined=True, check_range=False)
validate_index(index) ==
    IF index = None THEN "" ELSE IF Val(index) < 0 THEN "ValueError:index" ELSE ""

\* _def.encode_value(_dat): no class of fields.py defines encode_value
encode_value(field, value) == [err |-> "AttributeError", bytes |-> <<>>]

\* _fd.decode_from_record(string): no class of fields.py defines it
decode_from_record(field, string) == [err |-> "AttributeError", value |-> ""]

Min(a, b) == IF a < b THEN a ELSE b

\* the list comprehension of to_bytes over zip(fields, field_data), from pair i
RECURSIVE encode_pairs(_, _, _)
encode_pairs(flds, data, i) ==
    IF i > Min(Len(flds), Len(data)) THEN [err |-> "", bytes |-> <<>>]
    ELSE LET e == encode_value(flds[i], data[i])
         IN  IF e.err # "" THEN [err |-> e.err, bytes |-> <<>>]
             ELSE LET rest == encode_pairs(flds, data, i + 1)
                  IN  IF rest.err # "" THEN rest
                      ELSE [err |-> "", bytes |-> e.bytes \o rest.bytes]

deletion_flag(deleted) == IF deleted THEN "*" ELSE " "

\* DbfRecord.to_bytes
to_bytes(rec, flds) ==
    LET e == encode_pairs(flds, rec.field_data, 1)
    IN  IF e.err # "" THEN e
        ELSE [err |-> "", bytes |-> <<deletion_flag(rec.deleted)>> \o e.bytes]

\* string[0] == "*" in from_string: string is bytes, its element an int, and
\* an int is never equal to a str
first_is_asterisk(string) == FALSE

\* the list comprehension of from_string over the header's fields, from field i
RECURSIVE decode_fields(_, _, _)
decode_fields(flds, string, i) ==
    IF i > Len(flds) THEN [err |-> "", values |-> <<>>]
    ELSE LET d == decode_from_record(flds[i], string)
         IN  IF d.err # "" THEN [err |-> d.err, values |-> <<>>]
             ELSE LET rest == decode_fields(flds, string, i + 1)
                  IN  IF rest.err # "" THEN rest
                      ELSE [err |-> "", values |-> <<d.value>> \o rest.values]

\* DbfRecord.from_string(dbf, string, index)
from_string(flds, string, index) ==
    IF string = <<>> THEN [err |-> "IndexError", rec |-> None]
    ELSE LET d == decode_fields(flds, string, 1)
         IN  IF d.err # "" THEN [err |-> d.err, rec |-> None]
             ELSE DbfRecord_init("Dbf", flds, index, first_is_asterisk(string),
                                 Some(d.values))

\* the element of field_data a key of a record stands for: an int indexes
\* the list, anything else is taken as a field name
field_data_index(rec, h, key) ==
    IF key.kind = "int" THEN list_getitem(Len(rec.field_data), key.index)
    ELSE LET i == index_of_field_name(h, key.name)
         IN  IF i.err # "" THEN i ELSE list_getitem(Len(rec.field_data), i.index)

\* DbfRecord.__getitem__(key)
DbfRecord_getitem(rec, h, key) ==
    LET i == field_data_index(rec, h, key)
    IN  IF i.err # "" THEN [err |-> i.err, index |-> 0, value |-> ""]
        ELSE [err |-> "", index |-> i.index, value |-> rec.field_data[i.index + 1]]

\* DbfRecord.__setitem__(key, value): with an int key it returns the element
\* and stores nothing
DbfRecord_setitem(rec, h, key, value) ==
    LET i == field_data_index(rec, h, key)
    IN  IF i.err # "" THEN [err |-> i.err, rec |-> rec]
        ELSE IF key.kind = "int" THEN [err |-> "", rec |-> rec]
        ELSE [err |-> "", rec |-> [rec EXCEPT !.field_data[i.index + 1] = value]]

\* ------------------------------------------------------------------- Dbf

\* Dbf._fix_index(index) with len(self) = n
fix_index(index, n) ==
    LET i == IF index < 0 THEN index + n + 1 ELSE index
    IN  IF i >= n THEN [err |-> "IndexError", index |-> i]
        ELSE [err |-> "", index |-> i]

\* a write at a position past the end of the stream fills the gap with
\* zeros: header bytes that were never written are a record count of 0
gap_filled(st) == IF st.count = None THEN [st EXCEPT !.count = Some(0)] ELSE st

\* Dbf.write_record(record): the header, the record and the stream after it
write_record(h, st, rec) ==
    IF ~st.writable THEN [err |-> "", h |-> h, rec |-> rec, stream |-> st]
    ELSE LET append == rec.index = None
             rec1 == IF append THEN [rec EXCEPT !.index = Some(h.record_count)] ELSE rec
             h1 == IF append THEN [h EXCEPT !.record_count = h.record_count + 1] ELSE h
             b == to_bytes(rec1, h1.fields)
         IN  IF validate_index(rec1.index) # ""
             THEN [err |-> validate_index(rec1.index), h |-> h1, rec |-> rec1, stream |-> st]
             ELSE IF b.err # ""
             THEN [err |-> b.err, h |-> h1, rec |-> rec1, stream |-> st]
             ELSE [err |-> "", h |-> h1, rec |-> rec1,
                   stream |-> [gap_filled(st) EXCEPT !.write =
                                  Some([pos |-> position(h1, Val(rec1.index)),
                                        data |-> b.bytes])]]

\* Dbf.add_field(*defs): is_fpt is what a memo file made here reports
Dbf_add_field(h, m, defs, is_fpt) ==
    IF schema_frozen(h.record_count) THEN [err |-> "TypeError:frozen", h |-> h, memo |-> m]
    ELSE LET a == add_field(h, defs)
         IN  IF a.err # "" THEN [err |-> a.err, h |-> a.h, memo |-> m]
             ELSE IF ~has_memo(a.h.fields) THEN [err |-> "", h |-> a.h, memo |-> m]
             ELSE LET m1 == IF m = None THEN Some([is_fpt |-> is_fpt]) ELSE m
                      s == set_memo_file(a.h, m1)
                  IN  [err |-> s.err, h |-> s.h, memo |-> m1]

\* Dbf.__init__(file, new=True, ignore_errors, memo_file)
Dbf_init_new(ignore_errors, m) ==
    LET c == DbfHeader_init(<<>>, 0, FLAG_LENGTH, 0, SIG_DEFAULT, 0, FALSE)
        h == [c.h EXCEPT !.ignore_errors = ignore_errors,
                         !.fields = set_ignore_errors(c.h.fields, ignore_errors)]
    IN  set_memo_file(h, m)

\* Dbf.__init__(file, new=False, ignore_errors, memo_file): the header is
\* asked of DbfHeader.from_stream, which DbfHeader does not have
Dbf_init_existing(in, ignore_errors, m) ==
    [err |-> "AttributeError", h |-> NoHeader, memo |-> None]

\* DbfHeader.flush(stream): the header is written when it was changed
DbfHeader_flush(h, writable) ==
    IF ~h.changed THEN [err |-> "", h |-> h, written |-> <<>>]
    ELSE DbfHeader_write(h, writable)

\* the byte written after the last record
SUB == 26

\* Dbf.close(): the header and the stream after it
Dbf_close(h, st) ==
    LET f == DbfHeader_flush(h, st.writable)
        st1 == IF f.written = <<>> THEN st
               ELSE [st EXCEPT !.count = Some(f.written[1].bytes.record_count)]
    IN  IF f.err # "" THEN [err |-> f.err, h |-> f.h, stream |-> st1]
        ELSE IF ~st.writable THEN [err |-> "", h |-> f.h, stream |-> st1]
        ELSE [err |-> "", h |-> f.h,
              stream |-> [gap_filled(st1) EXCEPT !.write =
                             Some([pos |-> f.h.header_length
                                             + f.h.record_count * f.h.record_length,
                                   data |-> <<SUB>>])]]

\* Dbf.__getitem__(index) for an int index
Dbf_getitem(h, index) ==
    LET f == fix_index(index, h.record_count)
    IN  IF f.err # "" THEN [err |-> f.err, index |-> f.index, rec |-> None]
        ELSE LET r == DbfRecord_init("DbfHeader", h.fields, Some(f.index), FALSE, None)
             IN  [err |-> r.err, index |-> f.index, rec |-> r.rec]

\* ---------------------------------------------------------------- inputs

SeqsUpTo(S, n) == UNION {[1..k -> S] : k \in 0..n}

LongName == <<"t", "o", "o", "l", "o", "n", "g", "n", "a", "m", "e">>

TupleDef(type_code, name, length) ==
    [kind |-> "tuple", type_code |-> type_code, name |-> name, length |-> length]

\* a DbfField object built by the caller beforehand
ObjectDef(type_code, name, length, start, ignore_errors) ==
    [kind |-> "object",
     field |-> DbfField_init(type_code, name, length, start, ignore_errors).field]

TupleDefs ==
    {TupleDef("C", <<"a">>, Some(2)),
     TupleDef("M", <<"c">>, None), TupleDef("C", <<"B">>, Some(0)),
     TupleDef("Z", <<"a">>, Some(1)), TupleDef("C", LongName, Some(2))}

ObjectDefs == {ObjectDef("L", <<"B">>, None, None, TRUE)}

\* an argument that is neither a DbfField nor iterable
OtherDefs == {[kind |-> "int"]}

FieldDefs == TupleDefs \cup ObjectDefs \cup OtherDefs

\* the definitions handed to dbf.add_field: tuples, as in the examples
DbfFieldDefs ==
    {TupleDef("C", <<"a">>, Some(2)), TupleDef("M", <<"c">>, None),
     TupleDef("L", <<"B">>, None), TupleDef("C", <<"B">>, Some(0))}

Memos == {None, Some([is_fpt |-> TRUE]), Some([is_fpt |-> FALSE])}

\* a 32-byte field descriptor: its type, name, start and length bytes
Descriptor(type_code, start, length) ==
    [type_code |-> type_code, name |-> <<"A">>, start |-> start, length |-> length]

Descriptors ==
    {Descriptor("C", 1, 2), Descriptor("C", 3, 2), Descriptor("C", 1, 0),
     Descriptor("L", 1, 1), Descriptor("L", 2, 1), Descriptor("L", 3, 1),
     Descriptor("Z", 1, 2)}

\* table flags: none, and the memo bit together with another bit
Flags == {0, 1 + MEMO_FLAG}

\* the stream read by parse: short when it holds less than 32 bytes, date_ok
\* when the date bytes of the header are a calendar date, terminated when a
\* 0x0D byte follows the descriptors
ParseInput(short, date_ok, descs, terminated, record_count, header_length, record_length, sig, flag) ==
    [short |-> short, date_ok |-> date_ok, descs |-> descs, terminated |-> terminated,
     record_count |-> record_count, header_length |-> header_length,
     record_length |-> record_length, signature |-> sig,
     flag |-> flag]

ParseInputs(descs) ==
    {ParseInput(FALSE, TRUE, descs, TRUE, rc, calc_header_length(descs, sig) + pad, rl, sig,
                flag) :
        rc \in {0, 1}, pad \in {0, 7}, rl \in 1..(1 + 2 * MaxFields),
        sig \in {SIG_DEFAULT, SIG_FOXPRO}, flag \in Flags}
    \cup {ParseInput(FALSE, TRUE, descs, FALSE, 0, calc_header_length(descs, SIG_DEFAULT),
                     rl, SIG_DEFAULT, 0) :
            rl \in 1..(1 + 2 * MaxFields)}
    \cup (IF descs # <<>> THEN {}
          ELSE {ParseInput(TRUE, TRUE, <<>>, FALSE, 0, 0, 1, SIG_DEFAULT, 0),
                ParseInput(FALSE, FALSE, <<>>, TRUE, 0, 33, 1, SIG_DEFAULT, 0)})

\* the keyword arguments of DbfHeader(...): every record length with the
\* other arguments at their defaults, and every combination of the other
\* arguments with the default record length
ConstructInputs ==
    {[record_length |-> rl, record_count |-> 0, flag |-> 0, ignore_errors |-> FALSE] :
        rl \in 1..(1 + 2 * MaxFields)}
    \cup {[record_length |-> 1, record_count |-> rc, flag |-> flag, ignore_errors |-> ign] :
            rc \in {0, 1}, flag \in Flags, ign \in BOOLEAN}

\* the tables opened: one without fields that holds a record, one of one
\* field whose header is padded beyond its terminator, and one of one field
\* that holds a record and has the FoxPro signature
OpenInputs ==
    {ParseInput(FALSE, TRUE, <<>>, TRUE, 1, calc_header_length(<<>>, SIG_DEFAULT), 1,
                SIG_DEFAULT, 0),
     ParseInput(FALSE, TRUE, <<Descriptor("C", 1, 2)>>, TRUE, 0,
                calc_header_length(<<1>>, SIG_DEFAULT) + 7, 3, SIG_DEFAULT, 0),
     ParseInput(FALSE, TRUE, <<Descriptor("C", 1, 2)>>, TRUE, 1,
                calc_header_length(<<1>>, SIG_FOXPRO), 3, SIG_FOXPRO, 0)}

\* 32 raw bytes of a field descriptor: a name of at most 10 bytes padded with
\* 0x00, a registered type code, and the bytes after them
RawDescriptor(name, type_code, length, decimal_count, flag, reserved) ==
    [name |-> pack_name(name), type_code |-> type_code, start |-> 1, length |-> length,
     decimal_count |-> decimal_count, flag |-> flag, ai_next |-> 0, ai_step |-> 0,
     reserved |-> [i \in 1..RESERVED_SIZE |-> IF i = 1 THEN reserved ELSE 0]]

TenName == <<"A", "B", "C", "A", "B", "C", "A", "B", "C", "A">>

RawDescriptors ==
    {RawDescriptor(name, type_code, length, decimal_count, flag, reserved) :
        name \in {<<"A">>, <<"a">>, TenName}, type_code \in {"C", "N", "L", "Y", "M"},
        length \in {1, 4, 8}, decimal_count \in {0, 4}, flag \in {0, 3},
        reserved \in {0, 1}}

\* a field's file: None, or a memo store, of which the model keeps the
\* block it holds and the block id its next write answers
Files ==
    {None,
     Some([holds |-> [payload |-> <<"x">>, type |-> "TYPE_MEMO"], next_block |-> 1]),
     Some([holds |-> [payload |-> <<"x">>, type |-> "TYPE_OBJECT"], next_block |-> 258])}

\* the 4 raw bytes of a memo-bearing field in a record
BlockIds == {<<0, 0, 0, 0>>, <<1, 0, 0, 0>>, <<2, 1, 0, 0>>}

\* the values given to encode: empty and not
Payloads == {<<>>, <<"x">>, <<"x", "y">>}

\* the lengths and decimal counts of numeric fields
NumericLengths == {3, 5, 10}
DecimalCounts == {0, 1, 2}

\* the values given to a numeric field's encode, in hundredths: 0, 1.40,
\* 12.34, 123.40, 999.96, 1234.56, 12345.60, -123.40, -1234.56
NumericValues == {0, 140, 1234, 12340, 99996, 123456, 1234560, -12340, -123456}

\* the single bytes given to a logical field's decode
LogicalBytes == {"?", "N", "n", "F", "f", " ", "Y", "y", "T", "t", "X", "*", "0", "1"}

\* the values given to a logical field's encode
LogicalValues == {"True", "False", "-1", "-1.0", "1", "0", "None", "'T'"}

\* the names given to a field: of 1, 4, 10 and 11 bytes
FieldNames == {<<"a">>, <<"i", "t", "e", "m">>, <<"N", "A", "M", "E">>, TenName, LongName}

\* the bytes handed to from_string: a first byte, and "X" for every other byte
Strings(h) ==
    {<<f>> \o [i \in 1..(h.record_length - 1) |-> "X"] : f \in {" ", "*", "X"}}

\* the indexes asked of a table of n records: around -n, around 0, around n
Indexes(n) == {-(n + 2), -(n + 1), -1, n - 1, n}

\* the definitions of the tables looked into: two names, one of them given
\* in lower case
LookupDefs == {TupleDef("C", <<"a">>, Some(2)), TupleDef("L", <<"B">>, None)}

\* dbf = Dbf(stream, new=True); dbf.add_field(*defs): its header
Table(defs) == Dbf_add_field(Dbf_init_new(FALSE, None).h, None, defs, FALSE).h

\* the keys of a lookup: names as bytes, in both cases and one that no field
\* has; integers around the two ends of the field list; a key of another type
BytesKey(name) == [kind |-> "bytes", name |-> name]

IntKey(i) == [kind |-> "int", index |-> i]

NameKeys == {BytesKey(n) : n \in {<<"a">>, <<"A">>, <<"b">>, <<"B">>, <<"n">>}}

IntKeys == {IntKey(i) : i \in (-(MaxFields + 1))..MaxFields}

OtherKeys == {[kind |-> "float"]}

\* the values assigned to a field of a record
FieldValues == {"'v'", "0.0"}

\* every value of the code page byte of a header
Codes == 0..(BYTE - 1)

\* what locale.getpreferredencoding() answers: a name the dictionary does not
\* have, and one it has
DefaultEncodings == {"UTF-8", "cp1252"}

\* the names assigned to encoding: of the dictionary (one of them the name of
\* two codes) and not
EncodingNames == {"cp950", "cp936", "cp437", "cp1257", "UTF-8", "latin-1", ""}

Call(op, err, arg, out) == [op |-> op, err |-> err, arg |-> arg, out |-> out]

\* ------------------------------------------------------------------ Init

Init ==
    /\ made = "none"
    /\ header = NoHeader
    /\ stream = [writable |-> FALSE, write |-> None, count |-> None]
    /\ memo = None
    /\ recs = [r \in RecIds |-> None]
    /\ last = Call("init", "", <<>>, <<>>)

Fresh == made = "none" /\ last.op = "init"

\* --------------------------------------------------------------- actions

\* DbfHeader(fields, record_length=..., record_count=..., ignore_errors=...)
Construct ==
    /\ Fresh
    /\ \E args \in SeqsUpTo(ObjectDefs \cup {TupleDef("C", <<"a">>, Some(2))}, MaxFields),
       kw \in ConstructInputs :
        LET rl == kw.record_length
            rc == kw.record_count
            flag == kw.flag
            ign == kw.ignore_errors
            c == DbfHeader_init(args, 0, rl, rc, SIG_DEFAULT, flag, ign)
        IN  /\ made' = IF c.err # "" THEN "none"
                       ELSE IF args = <<>> THEN "ctor" ELSE "ctor_fields"
            /\ header' = c.h
            /\ last' = Call("DbfHeader", c.err,
                            [fields |-> args, record_length |-> rl, ignore_errors |-> ign],
                            <<>>)
            /\ UNCHANGED <<stream, memo, recs>>

\* DbfHeader.parse(stream)
Parse ==
    /\ Fresh
    /\ \E descs \in SeqsUpTo(Descriptors, MaxFields) : \E in \in ParseInputs(descs) :
        LET p == parse(in)
        IN  /\ made' = IF p.err # "" THEN "none" ELSE "parse"
            /\ header' = p.h
            /\ last' = Call("parse", p.err, in, <<>>)
            /\ UNCHANGED <<stream, memo, recs>>

\* Dbf(stream, new=True, ignore_errors=..., memo_file=...)
OpenNew ==
    /\ Fresh
    /\ \E writable \in BOOLEAN, ign \in BOOLEAN, m \in {None} :
        LET d == Dbf_init_new(ign, m)
        IN  /\ made' = "dbf"
            /\ header' = d.h
            /\ stream' = [writable |-> writable, write |-> None, count |-> None]
            /\ memo' = m
            /\ last' = Call("Dbf", d.err, <<>>, <<>>)
            /\ UNCHANGED recs

\* Dbf(stream): an existing table
OpenExisting ==
    /\ Fresh
    /\ \E in \in OpenInputs :
        LET d == Dbf_init_existing(in, FALSE, None)
        IN  /\ made' = IF d.err # "" THEN "none" ELSE "dbf"
            /\ header' = d.h
            /\ memo' = d.memo
            /\ last' = Call("Dbf_open", d.err, in, <<>>)
            /\ UNCHANGED <<stream, recs>>

\* DbfFields.parse(b).to_bytes()
ParseDescriptor ==
    /\ Fresh
    /\ \E b \in RawDescriptors :
        LET p == descriptor_parse(b)
        IN  /\ last' = Call("descriptor", p.err, b,
                            IF p.err = "" THEN DbfField_to_bytes(p.field) ELSE <<>>)
            /\ UNCHANGED <<made, header, stream, memo, recs>>

\* field.encode(value) of a numeric or float field
NumericEncode ==
    /\ Fresh
    /\ \E length \in NumericLengths, decimal_count \in DecimalCounts,
          value \in NumericValues :
        LET e == Numeric_encode(length, decimal_count, value)
        IN  /\ last' = Call("numeric_encode", e.err,
                            [length |-> length, decimal_count |-> decimal_count,
                             value |-> value],
                            e.bytes)
            /\ UNCHANGED <<made, header, stream, memo, recs>>

\* DbfCharacterField(name, 2)
FieldConstruct ==
    /\ Fresh
    /\ \E name \in FieldNames :
        LET c == DbfField_init("C", name, Some(2), None, FALSE)
        IN  /\ last' = Call("DbfField", c.err, name,
                            IF c.err = "" THEN c.field.name ELSE None)
            /\ UNCHANGED <<made, header, stream, memo, recs>>

\* field.name = name, of a field constructed with the name first
FieldSetName ==
    /\ Fresh
    /\ \E first \in FieldNames, name \in FieldNames :
        LET c == DbfField_init("C", first, Some(2), None, FALSE)
            a == name_setter(c.field.name, name)
        IN  /\ c.err = ""
            /\ last' = Call("set_name", a.err, [before |-> c.field.name, name |-> name],
                            a.name)
            /\ UNCHANGED <<made, header, stream, memo, recs>>

\* field.decode(value) of a logical field
LogicalDecode ==
    /\ Fresh
    /\ \E value \in LogicalBytes :
        LET d == Logical_decode(value)
        IN  /\ last' = Call("logical_decode", d.err, value, d.value)
            /\ UNCHANGED <<made, header, stream, memo, recs>>

\* field.decode(field.encode(value)) of a logical field
LogicalEncode ==
    /\ Fresh
    /\ \E value \in LogicalValues :
        LET e == Logical_encode(value)
            d == Logical_decode(e)
        IN  /\ last' = Call("logical_encode", d.err, value, [bytes |-> e, back |-> d.value])
            /\ UNCHANGED <<made, header, stream, memo, recs>>

\* field.decode(value) of a memo-bearing field
MemoDecode ==
    /\ Fresh
    /\ \E type_code \in {"G", "M", "P"}, value \in BlockIds, file \in Files :
        LET d == memo_decode(type_code, value, file)
        IN  /\ last' = Call("memo_decode", d.err,
                            [type_code |-> type_code, value |-> value, file |-> file],
                            [calls |-> d.reads, value |-> d.value])
            /\ UNCHANGED <<made, header, stream, memo, recs>>

\* field.encode(value) of a memo-bearing field
MemoEncode ==
    /\ Fresh
    /\ \E type_code \in {"G", "M", "P"}, value \in Payloads, file \in Files :
        LET e == memo_encode(type_code, value, file)
        IN  /\ last' = Call("memo_encode", e.err,
                            [type_code |-> type_code, value |-> value, file |-> file],
                            [calls |-> e.writes, bytes |-> e.bytes])
            /\ UNCHANGED <<made, header, stream, memo, recs>>

\* header.add_field(*defs)
AddField ==
    /\ made \in {"ctor", "ctor_fields", "parse"}
    /\ \E defs \in SeqsUpTo(FieldDefs, 2) :
        LET a == add_field(header, defs)
        IN  /\ defs # <<>>
            /\ Len(header.fields) + Len(defs) <= MaxFields
            /\ header' = a.h
            /\ last' = Call("add_field", a.err,
                            [accepted |-> \A i \in 1..Len(defs) : accepted_def(defs[i])],
                            <<>>)
            /\ UNCHANGED <<made, stream, memo, recs>>

\* dbf.add_field(*defs)
DbfAddField ==
    /\ made = "dbf"
    /\ \E defs \in SeqsUpTo(DbfFieldDefs, 2), is_fpt \in BOOLEAN :
        LET a == Dbf_add_field(header, memo, defs, is_fpt)
        IN  /\ defs # <<>>
            /\ Len(header.fields) + Len(defs) <= MaxFields
            /\ header' = a.h
            /\ memo' = a.memo
            /\ last' = Call("add_field", a.err,
                            [accepted |-> \A i \in 1..Len(defs) : accepted_def(defs[i])],
                            <<>>)
            /\ UNCHANGED <<made, stream, recs>>

\* header.ignore_errors = value
SetIgnoreErrors ==
    /\ made \in {"ctor", "ctor_fields", "parse"}
    /\ \E value \in BOOLEAN :
        /\ header' = [header EXCEPT !.ignore_errors = value,
                                    !.fields = set_ignore_errors(header.fields, value)]
        /\ last' = Call("ignore_errors", "", value, <<>>)
        /\ UNCHANGED <<made, stream, memo, recs>>

\* header.set_memo_file(memo)
SetMemoFile ==
    /\ made \in {"ctor", "ctor_fields", "parse"}
    /\ \E m \in Memos :
        LET s == set_memo_file(header, m)
        IN  /\ header' = s.h
            /\ last' = Call("set_memo_file", s.err, m, <<>>)
            /\ UNCHANGED <<made, stream, memo, recs>>

\* header.to_bytes()
HeaderToBytes ==
    /\ made \in {"ctor", "ctor_fields", "parse"}
    /\ LET t == DbfHeader_to_bytes(header)
       IN  /\ header' = t.h
           /\ last' = Call("header_to_bytes", "", <<>>, t.bytes)
           /\ UNCHANGED <<made, stream, memo, recs>>

\* header.write(stream)
Write ==
    /\ made \in {"ctor", "ctor_fields", "parse"}
    /\ \E writable \in BOOLEAN :
        LET w == DbfHeader_write(header, writable)
        IN  /\ header' = w.h
            /\ last' = Call("write", w.err, [writable |-> writable], w.written)
            /\ UNCHANGED <<made, stream, memo, recs>>

\* dbf.new_record()
NewRecord ==
    LET n == DbfRecord_init("DbfHeader", header.fields, None, FALSE, None)
    IN  /\ made = "dbf"
        /\ last' = Call("new_record", n.err, <<>>, <<>>)
        /\ UNCHANGED <<made, header, stream, memo, recs>>

\* r = DbfRecord(dbf)
MakeRecord ==
    /\ made = "dbf"
    /\ \E r \in RecIds :
        LET n == DbfRecord_init("Dbf", header.fields, None, FALSE, None)
        IN  /\ recs' = [recs EXCEPT ![r] = n.rec]
            /\ last' = Call("DbfRecord", n.err, r, <<>>)
            /\ UNCHANGED <<made, header, stream, memo>>

\* r.delete()
Delete ==
    \E r \in RecIds :
        /\ recs[r] # None
        /\ recs' = [recs EXCEPT ![r] = Some([Val(recs[r]) EXCEPT !.deleted = TRUE])]
        /\ last' = Call("delete", "", r, <<>>)
        /\ UNCHANGED <<made, header, stream, memo>>

\* r.to_bytes()
ToBytes ==
    \E r \in RecIds :
        LET b == to_bytes(Val(recs[r]), header.fields)
        IN  /\ recs[r] # None
            /\ last' = Call("to_bytes", b.err, r, b.bytes)
            /\ UNCHANGED <<made, header, stream, memo, recs>>

\* r = DbfRecord.from_string(dbf, string)
FromString ==
    /\ made = "dbf"
    /\ \E r \in RecIds, string \in Strings(header) :
        LET d == from_string(header.fields, string, None)
        IN  /\ recs' = IF d.err # "" THEN recs ELSE [recs EXCEPT ![r] = d.rec]
            /\ last' = Call("from_string", d.err, [r |-> r, string |-> string], <<>>)
            /\ UNCHANGED <<made, header, stream, memo>>

\* dbf.write_record(r)
WriteRecord ==
    \E r \in RecIds :
        LET w == write_record(header, stream, Val(recs[r]))
        IN  /\ made = "dbf"
            /\ recs[r] # None
            /\ Val(recs[r]).index = None => header.record_count < MaxCount
            /\ header' = w.h
            /\ stream' = w.stream
            /\ recs' = [recs EXCEPT ![r] = Some(w.rec)]
            /\ last' = Call("write_record", w.err, r, <<>>)
            /\ UNCHANGED <<made, memo>>

\* dbf[index]
GetItem ==
    /\ made = "dbf"
    /\ \E index \in Indexes(header.record_count) :
        LET g == Dbf_getitem(header, index)
        IN  /\ last' = Call("getitem", g.err, index, g.index)
            /\ UNCHANGED <<made, header, stream, memo, recs>>

\* dbf.close()
Close ==
    /\ made = "dbf"
    /\ LET c == Dbf_close(header, stream)
       IN  /\ made' = "closed"
           /\ header' = c.h
           /\ stream' = c.stream
           /\ last' = Call("close", c.err, <<>>, <<>>)
           /\ UNCHANGED <<memo, recs>>

\* the headers of the tables the lookups are made on
LookupTables == {Table(defs) : defs \in SeqsUpTo(LookupDefs, MaxFields)}

\* DbfRecord(dbf): a new record of the table with the header h
BlankRecord(h) == Val(DbfRecord_init("Dbf", h.fields, None, FALSE, None).rec)

\* header[key]
HeaderGetItem ==
    /\ Fresh
    /\ \E h \in LookupTables, key \in NameKeys \cup IntKeys \cup OtherKeys :
        \E g \in {DbfHeader_getitem(h, key)} :
            /\ last' = Call("header_getitem", g.err, [fields |-> h.fields, key |-> key],
                            g.index)
            /\ UNCHANGED <<made, header, stream, memo, recs>>

\* header.index_of_field_name(name)
IndexOfFieldName ==
    /\ Fresh
    /\ \E h \in LookupTables, key \in NameKeys :
        \E g \in {index_of_field_name(h, key.name)} :
            /\ last' = Call("index_of_field_name", g.err,
                            [fields |-> h.fields, key |-> key], g.index)
            /\ UNCHANGED <<made, header, stream, memo, recs>>

\* r = DbfRecord(dbf); r[key]
RecordGetItem ==
    /\ Fresh
    /\ \E h \in LookupTables, key \in NameKeys \cup IntKeys :
        \E r \in {BlankRecord(h)} : \E g \in {DbfRecord_getitem(r, h, key)} :
            /\ last' = Call("record_getitem", g.err,
                            [fields |-> h.fields, key |-> key, field_data |-> r.field_data],
                            [index |-> g.index, value |-> g.value])
            /\ UNCHANGED <<made, header, stream, memo, recs>>

\* r = DbfRecord(dbf); r[key] = value; r[key]
RecordSetItem ==
    /\ Fresh
    /\ \E h \in LookupTables, key \in NameKeys \cup IntKeys, value \in FieldValues :
        \E r \in {BlankRecord(h)} : \E s \in {DbfRecord_setitem(r, h, key, value)} :
        \E g \in {DbfRecord_getitem(s.rec, h, key)} :
            /\ last' = Call("record_setitem", s.err,
                            [fields |-> h.fields, key |-> key, value |-> value,
                             field_data |-> r.field_data],
                            [field_data |-> s.rec.field_data,
                             back |-> [err |-> g.err, value |-> g.value]])
            /\ UNCHANGED <<made, header, stream, memo, recs>>

\* CodePage(code).encoding
CodePageEncoding ==
    /\ Fresh
    /\ \E code \in Codes, default \in DefaultEncodings :
        /\ last' = Call("encoding", "", [code |-> code, default |-> default],
                        CodePage_encoding(code, default))
        /\ UNCHANGED <<made, header, stream, memo, recs>>

\* c = CodePage(code); c.encoding = name
CodePageSetEncoding ==
    /\ Fresh
    /\ \E code \in {0, 79}, name \in EncodingNames, default \in DefaultEncodings :
        LET c == CodePage_set_encoding(code, name)
        IN  /\ last' = Call("set_encoding", "",
                            [code |-> code, name |-> name, default |-> default],
                            [code_page |-> c, encoding |-> CodePage_encoding(c, default)])
            /\ UNCHANGED <<made, header, stream, memo, recs>>

Next ==
    \/ Construct
    \/ Parse
    \/ OpenNew
    \/ OpenExisting
    \/ ParseDescriptor
    \/ FieldConstruct
    \/ FieldSetName
    \/ NumericEncode
    \/ LogicalDecode
    \/ LogicalEncode
    \/ MemoDecode
    \/ MemoEncode
    \/ AddField
    \/ DbfAddField
    \/ SetIgnoreErrors
    \/ SetMemoFile
    \/ HeaderToBytes
    \/ Write
    \/ NewRecord
    \/ MakeRecord
    \/ Delete
    \/ ToBytes
    \/ FromString
    \/ WriteRecord
    \/ GetItem
    \/ Close
    \/ HeaderGetItem
    \/ IndexOfFieldName
    \/ RecordGetItem
    \/ RecordSetItem
    \/ CodePageEncoding
    \/ CodePageSetEncoding

Spec == Init /\ [][Next]_vars

\* ---------------------------------------------------------------- claims

\* the offset the field after flds[i] must start at: 1 for the first field
RECURSIVE RunningOffset(_, _)
RunningOffset(flds, i) ==
    IF i = 0 THEN 1 ELSE RunningOffset(flds, i - 1) + flds[i].length

Contiguous(flds) ==
    \A i \in 1..Len(flds) : flds[i].start = Some(RunningOffset(flds, i - 1))

\* what a field list is made of, its fields' error mode and memo file aside
Schema(flds) ==
    [i \in 1..Len(flds) |->
        <<flds[i].type_code, flds[i].name, flds[i].start, flds[i].length>>]

\* C1: in every header made by the constructor, by parse and by add_field
\* calls, record_length is 1 plus the sum of the lengths of the fields.
C1_RecordLength ==
    made # "none" => header.record_length = 1 + SumLength(header.fields)

C3_ContiguousStarts ==
    made \in {"ctor", "parse", "dbf"} => Contiguous(header.fields)

\* C4: after an add_field call that appended at least one field (a call that
\* raised part-way included) and after any set_memo_file call, header_length
\* is 32 + 32 * field_count + 1, plus 263 when the signature is 0x30.
C4_HeaderLength ==
    [][(\/ last'.op = "add_field" /\ Len(header'.fields) > Len(header.fields)
        \/ last'.op = "set_memo_file")
       => header'.header_length =
            32 + 32 * Len(header'.fields) + 1
               + (IF header'.signature = 48 THEN 263 ELSE 0)]_vars

\* C5: encoding a record yields exactly record_length bytes, the deletion
\* flag first ('*' if deleted, else ' '), whenever the record was created.
C5_RecordBytes ==
    last.op = "to_bytes" =>
        /\ last.err = ""
        /\ Len(last.out) = header.record_length
        /\ last.out[1] = (IF Val(recs[last.arg]).deleted THEN "*" ELSE " ")

\* C6: decoding a record gives deleted = FALSE for a first byte ' ', deleted =
\* TRUE for a first byte '*', and fails as malformed for any other first byte.
C6_DeletionFlag ==
    last.op = "from_string" =>
        LET first == last.arg.string[1]
        IN  /\ first = " " => last.err = "" /\ ~Val(recs[last.arg.r]).deleted
            /\ first = "*" => last.err = "" /\ Val(recs[last.arg.r]).deleted
            /\ first \notin {" ", "*"} => last.err = "MalformedRecord"

\* the fields whose decode fails on their slice of the record's bytes
FailingFields(flds, string) ==
    {i \in 1..Len(flds) :
        /\ flds[i].type_code = "L"
        /\ Logical_decode(string[Val(flds[i].start) + 1]).err # ""}

\* C7: when a field's decode fails, then with ignore_errors on exactly the
\* failing fields' values are the INVALID marker and the record is decoded,
\* and with ignore_errors off the record decode fails.
C7_IgnoreErrors ==
    (last.op = "from_string" /\ last.arg.string[1] \in {" ", "*"}
        /\ FailingFields(header.fields, last.arg.string) # {}) =>
        IF header.ignore_errors
        THEN /\ last.err = ""
             /\ \A i \in 1..Len(header.fields) :
                    (Val(recs[last.arg.r]).field_data[i] = "INVALID")
                        <=> i \in FailingFields(header.fields, last.arg.string)
        ELSE last.err # ""

\* C8: on a writable stream write_record of a record without an index gives
\* it index = record_count, adds 1 to record_count and writes its bytes at
\* header_length + index * record_length; with an index it writes at that
\* index's offset and leaves record_count as it is.
C8_WriteRecord ==
    [][(last'.op = "write_record" /\ stream.writable) =>
        LET old == Val(recs[last'.arg])
            new == Val(recs'[last'.arg])
        IN  /\ IF old.index = None
               THEN /\ new.index = Some(header.record_count)
                    /\ header'.record_count = header.record_count + 1
               ELSE /\ new.index = old.index
                    /\ header'.record_count = header.record_count
            /\ last'.err = ""
            /\ stream'.write # None
            /\ Val(stream'.write).pos =
                  header'.header_length + Val(new.index) * header'.record_length
            /\ Len(Val(stream'.write).data) = header'.record_length]_vars

\* C9: dbf[index] fails with IndexError whenever index < 0 or index >=
\* record_count, and no read is positioned outside [0, record_count).
C9_IndexRange ==
    last.op = "getitem" =>
        /\ (last.arg < 0 \/ last.arg >= header.record_count) => last.err = "IndexError"
        /\ last.err # "IndexError" => (0 <= last.out /\ last.out < header.record_count)

\* the length parse gives the field of a descriptor
ParsedLength(d) ==
    IF fixed_length(d.type_code) = None THEN d.length ELSE Val(fixed_length(d.type_code))

RECURSIVE Expected(_, _)
Expected(descs, k) ==
    IF k = 0 THEN 1 ELSE Expected(descs, k - 1) + ParsedLength(descs[k])

\* descriptor k is one a field is made of
WellFormed(d) == d.type_code \in RegisteredTypes /\ ParsedLength(d) > 0

\* C10: parse fails when a descriptor's start differs from the running offset
\* (as CorruptSchema when the descriptors up to it are well formed) and when
\* 1 + the sum of the parsed lengths differs from the declared record_length;
\* a header it returns has contiguous starts and the declared record_length.
C10_ParseChecks ==
    last.op = "parse" =>
        LET in == last.arg
            n == Len(in.descs)
            Bad == {k \in 1..n : in.descs[k].start # Expected(in.descs, k - 1)}
        IN  /\ (~in.short /\ Bad # {}) => last.err # ""
            /\ (~in.short /\ Bad # {}
                  /\ \A k \in 1..n : (\A j \in Bad : k <= j) => WellFormed(in.descs[k]))
                 => last.err = "ValueError:start"
            /\ (~in.short /\ in.record_length # Expected(in.descs, n)) => last.err # ""
            /\ (~in.short /\ in.date_ok /\ Bad = {} /\ in.record_length # Expected(in.descs, n)
                  /\ \A k \in 1..n : WellFormed(in.descs[k]))
                 => last.err = "ValueError:record_length"
            /\ last.err = "" =>
                 /\ Len(header.fields) = n
                 /\ Contiguous(header.fields)
                 /\ header.record_length = 1 + SumLength(header.fields)
                 /\ header.record_length = in.record_length

\* C10 witness: parse refused a second descriptor whose start is off
C10_Witness ==
    /\ last.op = "parse"
    /\ last.err = "ValueError:start"
    /\ Len(last.arg.descs) = 2
    /\ last.arg.descs[1].start = 1
    /\ last.arg.record_length = Expected(last.arg.descs, 2)

\* C11: parse fails when the stream holds at least 32 bytes and its
\* descriptors run to the end of the stream without a 0x0D terminator.
C11_MissingTerminator ==
    (last.op = "parse" /\ ~last.arg.short /\ ~last.arg.terminated) => last.err # ""

\* C12: for every registered type and every 32-byte descriptor b with a name
\* of at most 10 bytes, DbfFields.parse(b).to_bytes() is b, byte for byte,
\* the reserved bytes included.
C12_DescriptorRoundTrip ==
    last.op = "descriptor" => last.err = "" /\ last.out = last.arg

\* C13: write on a writable stream writes, from offset 0, the 32 header
\* bytes, the 32 descriptor bytes of each field in field order, one 0x0D
\* byte, and zero bytes up to header_length when 32 + 32 * field_count + 1
\* is smaller; afterwards the changed flag is false.
C13_HeaderWrite ==
    (last.op = "write" /\ last.arg.writable) =>
        LET n == Len(header.fields)
            end == 32 + 32 * n + 1
        IN  /\ last.err = ""
            /\ Len(last.out) = (IF end < header.header_length THEN 4 ELSE 3)
            /\ last.out[1].kind = "header" /\ last.out[1].len = 32
            /\ last.out[2].kind = "fields" /\ last.out[2].len = 32 * n
            /\ \A i \in 1..n :
                  /\ last.out[2].bytes[i].name = pack_name(header.fields[i].name)
                  /\ last.out[2].bytes[i].type_code = header.fields[i].type_code
                  /\ last.out[2].bytes[i].start = Val(header.fields[i].start)
                  /\ last.out[2].bytes[i].length = header.fields[i].length
            /\ last.out[3].kind = "terminator" /\ last.out[3].bytes = 13
            /\ end < header.header_length =>
                  /\ last.out[4].kind = "zeros"
                  /\ last.out[4].len = header.header_length - end
            /\ ~header.changed

\* the table flag without its bit 0x02
OtherBits(flag) == flag - ((flag \div 2) % 2) * 2

\* C14: after every to_bytes call of the header, bit 0x02 of the flag is set
\* if and only if the field list has a memo-bearing field, every other bit
\* of the flag is as before the call, and 32 bytes are returned.
C14_MemoFlag ==
    [][(last'.op = "header_to_bytes" \/ (last'.op = "write" /\ last'.arg.writable)) =>
        /\ ((header'.flag \div 2) % 2 = 1) <=> has_memo(header'.fields)
        /\ OtherBits(header'.flag) = OtherBits(header.flag)
        /\ last'.op = "header_to_bytes" =>
              /\ last'.err = ""
              /\ last'.out.len = 32
              /\ last'.out.flag = header'.flag]_vars

\* C15: set_memo_file of a memo store binds it to every memo-bearing field;
\* if the header has a memo field and its signature is none of 0x30, 0x83,
\* 0x8B, 0xCB, 0xE5, 0xF5, the signature becomes 0x30 when the store is of
\* the FPT dialect and 0x83 otherwise; in every other case the signature is
\* left as it was.
C15_SetMemoFile ==
    [][(last'.op = "set_memo_file" /\ last'.arg # None) =>
        LET m == last'.arg
            n == Len(header.fields)
            select == /\ has_memo(header.fields)
                      /\ header.signature \notin {48, 131, 139, 203, 229, 245}
        IN  /\ last'.err = ""
            /\ Len(header'.fields) = n
            /\ \A i \in 1..n :
                  IF header.fields[i].type_code \in {"M", "G", "P"}
                  THEN header'.fields[i] = [header.fields[i] EXCEPT !.file = m]
                  ELSE header'.fields[i] = header.fields[i]
            /\ header'.signature =
                  IF select THEN (IF Val(m).is_fpt THEN 48 ELSE 131)
                  ELSE header.signature]_vars

\* C15 witness: a memo store that is not of the FPT dialect was bound to a
\* header with a memo field, whose signature is now 0x83
C15_Witness ==
    /\ last.op = "set_memo_file"
    /\ last.arg = Some([is_fpt |-> FALSE])
    /\ has_memo(header.fields)
    /\ \E i \in 1..Len(header.fields) : header.fields[i].file = last.arg
    /\ header.signature = 131

\* C16: decode of a Memo, General or Picture field gives, for the block id
\* 0, an empty value of the field's memo subtype without a read of the
\* store, and for any other block id reads the store exactly once; encode of
\* an empty payload gives 4 zero bytes without a write, and of any other
\* payload writes exactly once and gives the block id the store answered as
\* 4 little-endian bytes.
C16_MemoStoreCalls ==
    /\ last.op = "memo_decode" =>
          LET zero == last.arg.value = <<0, 0, 0, 0>>
              block == last.arg.value[1] + 256 * last.arg.value[2]
                         + 65536 * last.arg.value[3] + 16777216 * last.arg.value[4]
              empty == IF last.arg.type_code = "M" THEN [text |-> <<>>]
                       ELSE [payload |-> <<>>,
                             type |-> IF last.arg.type_code = "G" THEN "TYPE_OBJECT"
                                      ELSE "TYPE_PICTURE"]
          IN  /\ zero => last.err = "" /\ last.out.calls = <<>> /\ last.out.value = empty
              /\ (~zero /\ last.arg.file # None) =>
                    last.err = "" /\ last.out.calls = <<block>>
    /\ last.op = "memo_encode" =>
          LET id == Val(last.arg.file).next_block
          IN  /\ last.arg.value = <<>> =>
                    /\ last.err = ""
                    /\ last.out.calls = <<>>
                    /\ last.out.bytes = <<0, 0, 0, 0>>
              /\ (last.arg.value # <<>> /\ last.arg.file # None) =>
                    /\ last.err = ""
                    /\ Len(last.out.calls) = 1
                    /\ last.out.calls[1].payload = last.arg.value
                    /\ Len(last.out.bytes) = 4
                    /\ last.out.bytes[1] + 256 * last.out.bytes[2]
                          + 65536 * last.out.bytes[3] + 16777216 * last.out.bytes[4] = id
                    /\ \A i \in 1..4 : last.out.bytes[i] \in 0..255

\* C16 witness: a payload was encoded by one write of the store, which
\* answered a block id of more than one byte
C16_Witness ==
    /\ last.op = "memo_encode"
    /\ last.err = ""
    /\ Len(last.out.calls) = 1
    /\ last.out.bytes = <<2, 1, 0, 0>>

\* the fixed-point text of a value with D decimals, without filling
FixedPoint(D, value) == format_f(0, D, value)

\* the length of the integer part of a fixed-point text, its sign included
IntegerPart(text) ==
    IF \E i \in 1..Len(text) : text[i] = "."
    THEN Cardinality({i \in 1..Len(text) : \A j \in 1..i : text[j] # "."})
    ELSE Len(text)

\* C17: numeric encode with length L and decimal count D gives the
\* fixed-point text of the value with D decimals, right-justified with
\* spaces to L bytes, when the text has at most L characters; when it is
\* longer, it fails as an overflow if the integer part with its sign does
\* not fit in L characters, and else gives the first L characters of the
\* text, only fractional digits lost.
C17_NumericEncode ==
    last.op = "numeric_encode" =>
        LET L == last.arg.length
            text == FixedPoint(last.arg.decimal_count, last.arg.value)
            n == Len(text)
        IN  /\ n <= L =>
                  /\ last.err = ""
                  /\ Len(last.out) = L
                  /\ \A i \in 1..L :
                        last.out[i] = IF i <= L - n THEN " " ELSE text[i - (L - n)]
            /\ (n > L /\ IntegerPart(text) > L) => last.err = "ValueError:overflow"
            /\ (n > L /\ IntegerPart(text) <= L) =>
                  /\ last.err = ""
                  /\ last.out = SubSeq(text, 1, L)

\* C17 witness: a value whose integer part fills the field exactly was
\* encoded to its integer part, the point and the decimals cut
C17_Witness ==
    /\ last.op = "numeric_encode"
    /\ last.arg = [length |-> 5, decimal_count |-> 2, value |-> 1234560]
    /\ last.err = ""
    /\ last.out = <<"1", "2", "3", "4", "5">>

\* C18: logical decode maps '?' to -1, each of 'N', 'n', 'F', 'f', ' ' to
\* False and each of 'Y', 'y', 'T', 't' to True, and fails for every other
\* single byte; logical encode maps True to 'T', -1 to '?' and anything else
\* to 'F'; so decode(encode(v)) = v for v in {True, False, -1}.
C18_Logical ==
    /\ last.op = "logical_decode" =>
          CASE last.arg = "?" -> last.err = "" /\ last.out = "-1"
            [] last.arg \in {"N", "n", "F", "f", " "} -> last.err = "" /\ last.out = "False"
            [] last.arg \in {"Y", "y", "T", "t"} -> last.err = "" /\ last.out = "True"
            [] OTHER -> last.err = "ValueError:logical"
    /\ last.op = "logical_encode" =>
          /\ last.out.bytes = (CASE last.arg = "True" -> "T"
                                 [] last.arg \in {"-1", "-1.0"} -> "?"
                                 [] OTHER -> "F")
          /\ last.arg \in {"True", "False", "-1"} =>
                last.err = "" /\ last.out.back = last.arg

\* C18 witness: False was encoded to 'F' and decoded back to False
C18_Witness ==
    /\ last.op = "logical_encode"
    /\ last.arg = "False"
    /\ last.out = [bytes |-> "F", back |-> "False"]

\* C19: after any sequence of add_field calls, and in any header returned
\* by parse, no two fields of the field list have the same name.
C19_UniqueNames ==
    made \in {"ctor", "parse", "dbf"} =>
        \A i, j \in 1..Len(header.fields) :
            header.fields[i].name = header.fields[j].name => i = j

\* a name without a lower-case letter
UpperCase(name) ==
    \A i \in 1..Len(name) :
        name[i] \notin {"a", "b", "c", "e", "g", "i", "l", "m", "n", "o", "t"}

\* C20: a field's name is stored in upper case and is at most 10 bytes long:
\* constructing a field with a longer name fails, assigning a longer name
\* fails and leaves the name as it was, and an accepted name reads back as
\* its upper-case form.
C20_FieldName ==
    /\ last.op = "DbfField" =>
          IF Len(last.arg) > 10 THEN last.err = "ValueError:name"
          ELSE /\ last.err = ""
               /\ last.out = upper(last.arg)
               /\ UpperCase(last.out)
    /\ last.op = "set_name" =>
          IF Len(last.arg.name) > 10
          THEN last.err = "ValueError:name" /\ last.out = last.arg.before
          ELSE /\ last.err = ""
               /\ last.out = upper(last.arg.name)
               /\ UpperCase(last.out)
    /\ \A i \in 1..Len(header.fields) :
          Len(header.fields[i].name) <= 10 /\ UpperCase(header.fields[i].name)

\* C20 witness: a name of 11 bytes was refused on assignment and the name
\* the field was constructed with is still there, in upper case
C20_Witness ==
    /\ last.op = "set_name"
    /\ last.err = "ValueError:name"
    /\ Len(last.arg.name) = 11
    /\ last.out = <<"I", "T", "E", "M">>

\* C14 witness: to_bytes cleared the memo bit of a header without memo
\* fields and kept the other bit of its flag
C14_Witness ==
    /\ last.op = "header_to_bytes"
    /\ ~has_memo(header.fields)
    /\ header.fields # <<>>
    /\ header.flag = 1


\* C21: lookup of a field by name is case-insensitive: for every field f of
\* the header and every key whose upper-case form is f's name, header[key],
\* index_of_field_name(key) and record[key] resolve to f (its position, and
\* for the record the value at that position; the first such field when
\* several fields have the name); a key that is no field's name in any case
\* fails with KeyError.
C21_NameLookup ==
    (/\ last.op \in {"header_getitem", "index_of_field_name", "record_getitem"}
     /\ last.arg.key.kind = "bytes") =>
        LET flds == last.arg.fields
            name == upper(last.arg.key.name)
            index == IF last.op = "record_getitem" THEN last.out.index ELSE last.out
        IN  /\ \A i \in 1..Len(flds) :
                  (flds[i].name = name /\ \A j \in 1..(i - 1) : flds[j].name # name) =>
                      /\ last.err = ""
                      /\ index = i - 1
                      /\ last.op = "record_getitem" =>
                            last.out.value = last.arg.field_data[i]
            /\ (\A i \in 1..Len(flds) : flds[i].name # name) => last.err = "KeyError"


\* C22: header[i] returns the i-th field for 0 <= i < field_count and fails
\* with IndexError for every other integer i, every negative i included.
C22_PositionalLookup ==
    (last.op = "header_getitem" /\ last.arg.key.kind = "int") =>
        LET n == Len(last.arg.fields)
            i == last.arg.key.index
        IN  IF 0 <= i /\ i < n THEN last.err = "" /\ last.out = i
            ELSE last.err = "IndexError"


\* C23: a write attempted on a stream that is not writable fails:
\* DbfHeader.write and Dbf.write_record on such a stream raise an error
\* instead of returning normally.
C23_StreamNotWritable ==
    /\ (last.op = "write" /\ ~last.arg.writable) => last.err # ""
    /\ (last.op = "write_record" /\ ~stream.writable) => last.err # ""


\* C24: assigning a record's field value, by integer field index or by field
\* name, stores it: after record[k] = v has returned, record[k] returns v and
\* every other field value of the record is as before.
C24_SetItem ==
    (last.op = "record_setitem" /\ last.err = "") =>
        /\ last.out.back.err = ""
        /\ last.out.back.value = last.arg.value
        /\ Len(last.out.field_data) = Len(last.arg.field_data)
        /\ Cardinality({i \in 1..Len(last.arg.field_data) :
                            last.out.field_data[i] # last.arg.field_data[i]}) <= 1


\* the charset names of the dictionary
TableNames == {code_pages[i][2] : i \in 1..Len(code_pages)}

\* C25: the encoding of a code of the table is its mapped charset name
\* (0x4F is cp950, 0x7A is cp936) and the encoding of a code that the table
\* does not have is the process default encoding; assigning to encoding a
\* name of the table selects a code whose encoding is that name, and
\* assigning a name that the table does not have sets the code to 0.
C25_CodePage ==
    /\ last.op = "encoding" =>
          /\ last.arg.code = 79 => last.out = "cp950"
          /\ last.arg.code = 122 => last.out = "cp936"
          /\ \A i \in 1..Len(code_pages) :
                code_pages[i][1] = last.arg.code => last.out = code_pages[i][2]
          /\ (\A i \in 1..Len(code_pages) : code_pages[i][1] # last.arg.code) =>
                last.out = last.arg.default
    /\ last.op = "set_encoding" =>
          IF last.arg.name \in TableNames
          THEN /\ \E i \in 1..Len(code_pages) :
                     code_pages[i] = <<last.out.code_page, last.arg.name>>
               /\ last.out.encoding = last.arg.name
          ELSE last.out.code_page = 0

\* C25 witness: cp950, the name of the codes 0x4F and 0x78, was assigned to
\* the encoding of a code page and selected the code 0x4F
C25_Witness ==
    /\ last.op = "set_encoding"
    /\ last.arg.name = "cp950"
    /\ last.out = [code_page |-> 79, encoding |-> "cp950"]


\* C26: after close() of a table on a writable stream, the record count in
\* the header bytes on the stream is header.record_count, whatever was done
\* before the close: on a new table (add_field, then appends) and on an
\* existing table that was opened and had records appended with
\* write_record.
C26_CloseCount ==
    (last.op = "close" /\ stream.writable) => stream.count = Some(header.record_count)


\* C27: opening an existing table leaves the header geometry as the file
\* declares it: after parse followed by set_memo_file, as done when a Dbf is
\* opened, header_length is still the header_length stored in the header
\* bytes of the file (and record_length the one stored), so that record i is
\* at the declared header_length + i * record_length.
C27_DeclaredGeometry ==
    [][(last.op = "parse" /\ last.err = "" /\ last'.op = "set_memo_file") =>
        /\ header'.header_length = last.arg.header_length
        /\ header'.record_length = last.arg.record_length
        /\ \A i \in 0..MaxCount :
              position(header', i) = last.arg.header_length + i * last.arg.record_length]_vars


\* C28: _fix_index takes a negative index as a list does: on a table of n
\* records, for every i with -n <= i < 0 it returns n + i (-1 is the last
\* record), and for every i < -n it raises IndexError.
C28_NegativeIndex ==
    (last.op = "getitem" /\ last.arg < 0) =>
        LET n == header.record_count
        IN  IF -n <= last.arg
            THEN last.err # "IndexError" /\ last.out = n + last.arg
            ELSE last.err = "IndexError"


\* C29: after any sequence of header construction, parse, assignments to
\* ignore_errors and add_field calls, with fields given as tuples or as
\* DbfField objects, every field of the field list has the ignore_errors
\* value of the header.
C29_IgnoreErrorsUniform ==
    made \in {"ctor", "ctor_fields", "parse", "dbf"} =>
        \A i \in 1..Len(header.fields) :
            header.fields[i].ignore_errors = header.ignore_errors

====
